---- MODULE Spec2Model ----
(***************************************************************************)
(* Model of the Mandelbrot visualizer of src/main.py: the Parameter        *)
(* Controller (Fractal.delta_time, Fractal.control), alone as calls of     *)
(* control() and within the frames of Fractal.run, where update() calls    *)
(* control() and then the Render Kernel (Fractal.render), copies the       *)
(* field, and draw() blits the copy.                                       *)
(*                                                                         *)
(* Numbers.  The controller's zoom, vel, increment and dt are Python       *)
(* floats (IEEE-754 binary64); the kernel's arguments and locals are       *)
(* ti.float32 (binary32).  Both are modelled bit-exactly, with             *)
(* round-to-nearest-even, as records                                       *)
(*     [k |-> "fin", neg |-> sign, m |-> mantissa, e |-> exponent]         *)
(* of value (-1)^neg * m * 2^e, the mantissa m being a natural number      *)
(* held as a little-endian sequence of limbs in base 2^14 (TLC's integers  *)
(* are 32 bits wide, a binary64 mantissa is 53).  "inf" and "nan" are the  *)
(* other two kinds.                                                        *)
(***************************************************************************)
EXTENDS Integers, Sequences, FiniteSets, TLC

\* ------------------------------------------------------------------------
\* Natural numbers of any size: little-endian limb sequences in base 2^14,
\* no high zero limb, zero is << >>.  A number has a dozen limbs at most, so
\* the recursions over the limbs are shallow.
\* ------------------------------------------------------------------------
Base == 2^14

Max(a, b) == IF a >= b THEN a ELSE b

Min(a, b) == IF a <= b THEN a ELSE b

Limb(a, i) == IF i >= 1 /\ i <= Len(a) THEN a[i] ELSE 0

RECURSIVE Trim(_)
Trim(a) == IF a = << >> THEN a
           ELSE IF a[Len(a)] # 0 THEN a
           ELSE Trim(SubSeq(a, 1, Len(a) - 1))

Zeros(n) == [i \in 1..n |-> 0]

\* n < 2^31 as limbs, and back
FromNat(n) == Trim(<<n % Base, (n \div Base) % Base, n \div (Base * Base)>>)

ToNat(a) == Limb(a, 1) + Base * Limb(a, 2) + Base * Base * Limb(a, 3)

\* the limbs of the number whose columns (of absolute value below 2^30) are
\* cols[i..], with c carried in; a carry out of the last column is dropped
RECURSIVE Norm(_, _, _)
Norm(cols, i, c) ==
    IF i > Len(cols) THEN << >>
    ELSE <<(cols[i] + c) % Base>> \o Norm(cols, i + 1, (cols[i] + c) \div Base)

BAdd(a, b) ==
    Trim(Norm([i \in 1..(Max(Len(a), Len(b)) + 1) |-> Limb(a, i) + Limb(b, i)],
              1, 0))

\* a - b for a >= b
BSub(a, b) == Trim(Norm([i \in 1..Len(a) |-> a[i] - Limb(b, i)], 1, 0))

\* -1, 0, 1 as a < b, a = b, a > b, for a and b of one length, from limb i
\* downwards
RECURSIVE CmpFrom(_, _, _)
CmpFrom(a, b, i) ==
    IF i = 0 THEN 0
    ELSE IF a[i] # b[i] THEN (IF a[i] < b[i] THEN -1 ELSE 1)
    ELSE CmpFrom(a, b, i - 1)

BCmp(a, b) ==
    IF Len(a) # Len(b) THEN (IF Len(a) < Len(b) THEN -1 ELSE 1)
    ELSE CmpFrom(a, b, Len(a))

\* a * k for one limb k
BMulSmall(a, k) == Trim(Norm([i \in 1..(Len(a) + 1) |-> Limb(a, i) * k], 1, 0))

\* a * b, the shorter of the two of at most seven limbs, so that a column
\* of limb products stays below 2^31
BMul(a, b) ==
    LET col(k) == LET hi == Min(Len(a), k)
                      RECURSIVE sum(_)
                      sum(i) == IF i > hi THEN 0
                                ELSE a[i] * b[k + 1 - i] + sum(i + 1)
                  IN  sum(Max(1, k + 1 - Len(b)))
    IN  IF a = << >> \/ b = << >> THEN << >>
        ELSE Trim(Norm([k \in 1..(Len(a) + Len(b)) |-> col(k)], 1, 0))

RECURSIVE IntBitLen(_)
IntBitLen(n) == IF n = 0 THEN 0 ELSE 1 + IntBitLen(n \div 2)

BitLen(a) == IF a = << >> THEN 0
             ELSE 14 * (Len(a) - 1) + IntBitLen(a[Len(a)])

\* a * 2^k
ShL(a, k) ==
    LET f == 2^(k % 14)
    IN  IF a = << >> THEN << >>
        ELSE Zeros(k \div 14) \o
             Trim([i \in 1..(Len(a) + 1) |->
                      ((Limb(a, i) * f) % Base) + ((Limb(a, i - 1) * f) \div Base)])

\* floor(a / 2^k)
ShR(a, k) ==
    LET q == k \div 14
        r == k % 14
    IN  IF q >= Len(a) THEN << >>
        ELSE Trim([i \in 1..(Len(a) - q) |->
                     (a[q + i] \div (2^r)) + (Limb(a, q + i + 1) % (2^r)) * 2^(14 - r)])

\* a mod 2^k
LowBits(a, k) ==
    IF k \div 14 >= Len(a) THEN a
    ELSE Trim(SubSeq(a, 1, k \div 14) \o <<a[(k \div 14) + 1] % (2^(k % 14))>>)

IsOdd(a) == a # << >> /\ a[1] % 2 = 1

\* Long division (Knuth's algorithm D).  The divisor d is normalised: its
\* top limb is at least Base / 2.  Then the quotient digit of r < d * Base
\* is the estimate from the top limbs, or one or two less.
QuotDigit(r, d) ==
    LET n  == Len(d)
        g  == Min((Limb(r, n + 1) * Base + Limb(r, n)) \div d[n], Base - 1)
    IN  IF BCmp(BMulSmall(d, g), r) <= 0 THEN g
        ELSE IF BCmp(BMulSmall(d, g - 1), r) <= 0 THEN g - 1
        ELSE g - 2

\* one step of the division: hi is <<quotient, remainder>> of the limbs
\* above limb x of the dividend
BDivStep(hi, x, d) ==
    LET r == Trim(<<x>> \o hi[2])
        g == QuotDigit(r, d)
    IN  <<<<g>> \o hi[1], BSub(r, BMulSmall(d, g))>>

\* <<quotient, remainder>> of the limbs Len(num)..i of num divided by d;
\* the quotient's high zero limbs not yet removed
RECURSIVE BDivI(_, _, _)
BDivI(num, d, i) ==
    IF i > Len(num) THEN <<<< >>, << >>>>
    ELSE LET hi == BDivI(num, d, i + 1)
         IN  IF hi[2] = << >> /\ num[i] = 0 THEN <<<<0>> \o hi[1], << >>>>
             ELSE BDivStep(hi, num[i], d)

BDivMod(num, d) ==
    LET qr == BDivI(num, d, 1)
    IN  <<Trim(qr[1]), qr[2]>>

\* ------------------------------------------------------------------------
\* IEEE-754 binary floating point, round to nearest, ties to even.
\* A format is [p: precision in bits, emin, emax: the least and greatest
\* exponent of the integer mantissa].
\* ------------------------------------------------------------------------
F64 == [p |-> 53, emin |-> -1074, emax |-> 971]

F32 == [p |-> 24, emin |-> -149, emax |-> 104]

Inf(neg) == [k |-> "inf", neg |-> neg, m |-> << >>, e |-> 0]

NaN == [k |-> "nan", neg |-> FALSE, m |-> << >>, e |-> 0]

\* the finite value m * 2^e, already within the format's precision
Fin(fmt, neg, m, e) ==
    IF m = << >> THEN [k |-> "fin", neg |-> neg, m |-> << >>, e |-> fmt.emin]
    ELSE IF e > fmt.emax THEN Inf(neg)
    ELSE [k |-> "fin", neg |-> neg, m |-> m, e |-> e]

\* the format's value nearest to M * 2^E
RoundF(fmt, neg, M, E) ==
    IF M = << >> THEN Fin(fmt, neg, << >>, 0)
    ELSE LET e1 == Max(E + BitLen(M) - fmt.p, fmt.emin)
         IN  IF e1 <= E THEN Fin(fmt, neg, ShL(M, E - e1), e1)
             ELSE LET sh == e1 - E
                      q  == ShR(M, sh)
                      c  == BCmp(LowBits(M, sh), ShL(<<1>>, sh - 1))
                      up == c > 0 \/ (c = 0 /\ IsOdd(q))
                      q1 == IF up THEN BAdd(q, <<1>>) ELSE q
                  IN  IF BitLen(q1) > fmt.p
                      THEN Fin(fmt, neg, ShR(q1, 1), e1 + 1)
                      ELSE Fin(fmt, neg, q1, e1)

IsZero(a) == a.k = "fin" /\ a.m = << >>

FNeg(a) == IF a.k = "nan" THEN a ELSE [a EXCEPT !.neg = ~a.neg]

\* conversion between formats (float64 -> float32 at the kernel boundary)
FCvt(fmt, a) == IF a.k = "fin" THEN RoundF(fmt, a.neg, a.m, a.e) ELSE a

FromInt(fmt, n) == RoundF(fmt, n < 0, FromNat(IF n < 0 THEN -n ELSE n), 0)

FMul(fmt, a, b) ==
    IF a.k = "nan" \/ b.k = "nan" THEN NaN
    ELSE IF a.k = "inf" \/ b.k = "inf"
         THEN (IF IsZero(a) \/ IsZero(b) THEN NaN ELSE Inf(a.neg # b.neg))
    ELSE RoundF(fmt, a.neg # b.neg, BMul(a.m, b.m), a.e + b.e)

\* a + b.  An operand below a quarter of the last place of the other, a full
\* p-bit mantissa, does not change it; otherwise the exact sum is rounded.
FAdd(fmt, a, b) ==
    IF a.k = "nan" \/ b.k = "nan" THEN NaN
    ELSE IF a.k = "inf"
         THEN (IF b.k = "inf" /\ a.neg # b.neg THEN NaN ELSE a)
    ELSE IF b.k = "inf" THEN b
    ELSE IF a.m = << >> /\ b.m = << >>
         THEN Fin(fmt, a.neg /\ b.neg, << >>, 0)
    ELSE IF a.m = << >> THEN RoundF(fmt, b.neg, b.m, b.e)
    ELSE IF b.m = << >> THEN RoundF(fmt, a.neg, a.m, a.e)
    ELSE IF BitLen(a.m) = fmt.p /\ BitLen(b.m) + b.e <= a.e - 3
         THEN RoundF(fmt, a.neg, a.m, a.e)
    ELSE IF BitLen(b.m) = fmt.p /\ BitLen(a.m) + a.e <= b.e - 3
         THEN RoundF(fmt, b.neg, b.m, b.e)
    ELSE LET e == Min(a.e, b.e)
             A == ShL(a.m, a.e - e)
             B == ShL(b.m, b.e - e)
             c == BCmp(A, B)
         IN  IF a.neg = b.neg THEN RoundF(fmt, a.neg, BAdd(A, B), e)
             ELSE IF c = 0 THEN Fin(fmt, FALSE, << >>, 0)
             ELSE IF c > 0 THEN RoundF(fmt, a.neg, BSub(A, B), e)
             ELSE RoundF(fmt, b.neg, BSub(B, A), e)

FSub(fmt, a, b) == FAdd(fmt, a, FNeg(b))

FDiv(fmt, a, b) ==
    IF a.k = "nan" \/ b.k = "nan" THEN NaN
    ELSE IF a.k = "inf" THEN (IF b.k = "inf" THEN NaN ELSE Inf(a.neg # b.neg))
    ELSE IF b.k = "inf" THEN Fin(fmt, a.neg # b.neg, << >>, 0)
    ELSE IF b.m = << >> THEN (IF a.m = << >> THEN NaN ELSE Inf(a.neg # b.neg))
    ELSE IF a.m = << >> THEN Fin(fmt, a.neg # b.neg, << >>, 0)
    ELSE LET n  == Max(fmt.p + 2 + BitLen(b.m) - BitLen(a.m), 0)
             s  == 14 * Len(b.m) - BitLen(b.m)
             qr == BDivMod(ShL(a.m, n + s), ShL(b.m, s))
             M  == BAdd(BMulSmall(qr[1], 2),
                        IF qr[2] = << >> THEN << >> ELSE <<1>>)
         IN  RoundF(fmt, a.neg # b.neg, M, a.e - b.e - n - 1)

\* -1, 0, 1 as |a| < |b|, |a| = |b|, |a| > |b|, for finite a and b
FCmpAbs(a, b) ==
    IF a.m = << >> \/ b.m = << >>
    THEN (IF a.m = b.m THEN 0 ELSE IF a.m = << >> THEN -1 ELSE 1)
    ELSE IF BitLen(a.m) + a.e # BitLen(b.m) + b.e
    THEN (IF BitLen(a.m) + a.e < BitLen(b.m) + b.e THEN -1 ELSE 1)
    ELSE BCmp(ShL(a.m, a.e - Min(a.e, b.e)), ShL(b.m, b.e - Min(a.e, b.e)))

\* a > b, as the comparison operator of the language: false on a nan
FGt(a, b) ==
    IF a.k = "nan" \/ b.k = "nan" THEN FALSE
    ELSE IF a.k = "inf" THEN ~a.neg /\ ~(b.k = "inf" /\ ~b.neg)
    ELSE IF b.k = "inf" THEN b.neg
    ELSE IF IsZero(a) /\ IsZero(b) THEN FALSE
    ELSE IF a.neg # b.neg THEN b.neg
    ELSE IF a.neg THEN FCmpAbs(a, b) < 0
    ELSE FCmpAbs(a, b) > 0

\* int(a): truncation toward zero of a finite value
FTrunc(a) ==
    LET n == ToNat(IF a.e >= 0 THEN ShL(a.m, a.e) ELSE ShR(a.m, -a.e))
    IN  IF a.neg THEN -n ELSE n

\* floor(a) of a finite value, as a float of the format
FFloor(fmt, a) ==
    LET q == IF a.e >= 0 THEN a.m ELSE ShR(a.m, -a.e)
        x == a.e < 0 /\ LowBits(a.m, -a.e) # << >>
    IN  IF a.e >= 0 THEN a
        ELSE IF a.neg /\ x THEN RoundF(fmt, TRUE, BAdd(q, <<1>>), 0)
        ELSE RoundF(fmt, a.neg, q, 0)

\* the Python float literal n/d written in decimal (0.01 is Dec(1, 100)):
\* the binary64 nearest to the fraction
Dec(n, d) == FDiv(F64, FromInt(F64, n), FromInt(F64, d))

\* ------------------------------------------------------------------------
\* Settings and configuration constants
\* ------------------------------------------------------------------------
width == 800

height == 450

\* offset = np.array([1.3 * width, height]) // 2
offset ==
    <<FFloor(F64, FDiv(F64, FMul(F64, Dec(13, 10), FromInt(F64, width)),
                       FromInt(F64, 2))),
      FFloor(F64, FDiv(F64, FromInt(F64, height), FromInt(F64, 2)))>>

max_iter_init == 30

max_iter_limit == 5500

vel_init == Dec(1, 100)

zoom_init == FDiv(F64, Dec(22, 10), FromInt(F64, height))

scale == Dec(993, 1000)

app_speed == FDiv(F64, FromInt(F64, 1), FromInt(F64, 4000))

\* inv_scale = 2 - self.scale (self.scale is never assigned after __init__)
inv_scale == FSub(F64, FromInt(F64, 2), scale)

\* the keys control() polls: pan, zoom, iteration cap
PanKeys == {"K_a", "K_d", "K_w", "K_s"}

ZoomKeys == {"K_UP", "K_DOWN"}

IterKeys == {"K_LEFT", "K_RIGHT"}

\* img/texture.jpg is not part of the sources: the model's texture has
\* texture_width x texture_height texels, no two of the diagonal alike and
\* none of them black
texture_width == 6

texture_height == 5

texture_size == Min(texture_width, texture_height) - 1

texture_field ==
    [i \in 0..(texture_width - 1) |->
        [j \in 0..(texture_height - 1) |->
            <<(40 * i + 10) % 256, (30 * j + 20) % 256, (i + j) % 256>>]]

\* ------------------------------------------------------------------------
\* Bounds of the model
\* ------------------------------------------------------------------------
\* the value of pg.time.get_ticks() when Fractal.__init__ runs (ms)
StartTicks == 1

\* the greatest value of pg.time.get_ticks() in a run of unbounded length
MaxTicks == 2

\* the length of a run in which zoom and pan keys are held, in ticks
MaxFrames == 2

\* the number of frames of a run of the whole program
MaxPasses == 2

\* the time between two calls of control() (ms)
FrameMs == {1, 2}

\* the sets of pan and zoom keys held in one tick: two keys at most
Held == {K \in SUBSET (PanKeys \cup ZoomKeys) : Cardinality(K) <= 2}

\* the time a frame of the whole program takes (ms)
RunMs == {3}

\* the sets of keys held in a frame of the whole program
RunHeld == {{}, {"K_d", "K_w"}, {"K_UP"}, {"K_LEFT"}, {"K_RIGHT"}}

\* the cells of screen_field the model renders, of the width x height
Pixels == {<<0, 0>>, <<141, 379>>, <<520, 225>>}

\* ------------------------------------------------------------------------
\* State
\* ------------------------------------------------------------------------
VARIABLES
    max_iter, zoom, vel, increment, prev_time,  \* fields of Fractal
    screen_field,   \* the Taichi field render() writes, a colour per cell
    screen_array,   \* its numpy copy, which draw() blits
    ticks,          \* the value pg.time.get_ticks() returned last
    pressed_key,    \* the keys pg.key.get_pressed() gave the last control()
    time_now,       \* the local time_now of the last delta_time()
    args,           \* the arguments of the render() call in progress
    kernel,         \* per cell, the locals of its iteration of render()
    pc,             \* "update" between two frames, "render" within render()
    was,            \* history: fields and clock before the last control()
    frame,          \* history: control() calls so far, counted to MaxFrames
    frames          \* history: the arguments and screen_array of each
                    \* frame drawn

vars == <<max_iter, zoom, vel, increment, prev_time, screen_field,
          screen_array, ticks, pressed_key, time_now, args, kernel, pc,
          was, frame, frames>>

render_vars == <<screen_field, screen_array, args, kernel, pc, frames>>

View == [max_iter |-> max_iter, zoom |-> zoom, vel |-> vel,
         increment |-> increment, prev_time |-> prev_time, ticks |-> ticks]

Zero64 == FromInt(F64, 0)

Zero32 == FromInt(F32, 0)

Black == <<0, 0, 0>>

\* the locals of a cell before render() reaches it
Idle == [st |-> "idle", c |-> <<Zero32, Zero32>>, z |-> <<Zero32, Zero32>>,
         num_iter |-> 0, i |-> 0, col |-> 0]

NoArgs == [max_iter |-> 0, zoom |-> Zero32, dx |-> Zero32, dy |-> Zero32]

\* what __init__ leaves besides the view: zeroed buffers, the clock read once
InitRest ==
    /\ screen_field = [p \in Pixels |-> Black]
    /\ screen_array = [p \in Pixels |-> Black]
    /\ ticks = StartTicks
    /\ prev_time = ticks
    /\ pressed_key = {}
    /\ time_now = 0
    /\ args = NoArgs
    /\ kernel = [p \in Pixels |-> Idle]
    /\ pc = "update"
    /\ was = View
    /\ frame = 0
    /\ frames = << >>

\* Fractal.__init__
Init ==
    /\ max_iter = max_iter_init
    /\ zoom = zoom_init
    /\ vel = vel_init
    /\ increment = <<Zero64, Zero64>>
    /\ InitRest

\* ------------------------------------------------------------------------
\* Fractal.delta_time and Fractal.control
\* ------------------------------------------------------------------------
\* time_now = pg.time.get_ticks() - self.prev_time, the clock at now
delta_time_now(prev, now) == now - prev

\* the value delta_time() returns: time_now * self.app_speed
delta_time(prev, now) ==
    FMul(F64, FromInt(F64, delta_time_now(prev, now)), app_speed)

\* control_pan with the sign of K_d that of K_a
control_pan_d_adds(s, keys, dt) ==
    LET x1 == IF "K_a" \in keys
              THEN FAdd(F64, s.increment[1], FMul(F64, s.vel, dt))
              ELSE s.increment[1]
        x2 == IF "K_d" \in keys
              THEN FAdd(F64, x1, FMul(F64, s.vel, dt)) ELSE x1
        y1 == IF "K_w" \in keys
              THEN FAdd(F64, s.increment[2], FMul(F64, s.vel, dt))
              ELSE s.increment[2]
        y2 == IF "K_s" \in keys
              THEN FSub(F64, y1, FMul(F64, s.vel, dt)) ELSE y1
    IN  <<x2, y2>>

\* control(), movement: the new increment
control_pan(s, keys, dt) ==
    LET x1 == IF "K_a" \in keys
              THEN FAdd(F64, s.increment[1], FMul(F64, s.vel, dt))
              ELSE s.increment[1]
        x2 == IF "K_d" \in keys
              THEN FSub(F64, x1, FMul(F64, s.vel, dt)) ELSE x1
        y1 == IF "K_w" \in keys
              THEN FAdd(F64, s.increment[2], FMul(F64, s.vel, dt))
              ELSE s.increment[2]
        y2 == IF "K_s" \in keys
              THEN FSub(F64, y1, FMul(F64, s.vel, dt)) ELSE y1
    IN  <<x2, y2>>

\* control_zoom with zoom-out the true inverse of zoom-in: a division by
\* scale
control_zoom_inverse(s, keys) ==
    LET z1 == IF "K_UP" \in keys THEN FMul(F64, s.zoom, scale) ELSE s.zoom
        v1 == IF "K_UP" \in keys THEN FMul(F64, s.vel, scale) ELSE s.vel
    IN  [zoom |-> IF "K_DOWN" \in keys THEN FDiv(F64, z1, scale) ELSE z1,
         vel  |-> IF "K_DOWN" \in keys THEN FDiv(F64, v1, scale) ELSE v1]

\* control(), zoom: the new zoom and vel
control_zoom(s, keys) ==
    LET z1 == IF "K_UP" \in keys THEN FMul(F64, s.zoom, scale) ELSE s.zoom
        v1 == IF "K_UP" \in keys THEN FMul(F64, s.vel, scale) ELSE s.vel
    IN  [zoom |-> IF "K_DOWN" \in keys THEN FMul(F64, z1, inv_scale) ELSE z1,
         vel  |-> IF "K_DOWN" \in keys THEN FMul(F64, v1, inv_scale) ELSE v1]

\* control_iter with the lower clamp left out
control_iter_no_floor(s, keys) ==
    LET m1 == IF "K_LEFT" \in keys THEN s.max_iter - 1 ELSE s.max_iter
        m2 == IF "K_RIGHT" \in keys THEN m1 + 1 ELSE m1
    IN  Min(m2, max_iter_limit)

\* control(), iteration cap: the new max_iter
control_iter(s, keys) ==
    LET m1 == IF "K_LEFT" \in keys THEN s.max_iter - 1 ELSE s.max_iter
        m2 == IF "K_RIGHT" \in keys THEN m1 + 1 ELSE m1
    IN  Min(Max(m2, 2), max_iter_limit)

\* the body of control(): the keys held are keys, get_ticks() returns now
control(keys, now) ==
    /\ max_iter' = control_iter(View, keys)
    /\ zoom' = control_zoom(View, keys).zoom
    /\ vel' = control_zoom(View, keys).vel
    /\ increment' = control_pan(View, keys, delta_time(prev_time, now))
    /\ prev_time' = delta_time_now(prev_time, now)
    /\ time_now' = delta_time_now(prev_time, now)
    /\ ticks' = now
    /\ pressed_key' = keys
    /\ was' = View
    /\ frame' = Min(frame + 1, MaxFrames)

\* one call of control(), nothing else of the program running
Control(keys, now) ==
    /\ pc = "update"
    /\ control(keys, now)
    /\ UNCHANGED render_vars

\* the value delta_time() returned to the last control()
dt == FMul(F64, FromInt(F64, time_now), app_speed)

\* Calls of control() with the iteration keys held, one after the other
\* without end; the clock stays within MaxTicks.
NextIter ==
    \E keys \in SUBSET IterKeys, now \in ticks..MaxTicks : Control(keys, now)

SpecIter == Init /\ [][NextIter]_vars

\* MaxFrames calls of control() with pan and zoom keys held, FrameMs apart.
NextView ==
    /\ frame < MaxFrames
    /\ \E keys \in Held, ms \in FrameMs : Control(keys, ticks + ms)

SpecView == Init /\ [][NextView]_vars

\* the sets of keys held in a call of a run that zooms in
ZoomInHeld == {{"K_UP"}}

\* Calls of control() with zoom-in held, one after the other for as long as
\* the zoom render() would be called with (zoom: ti.float32) is not zero;
\* the clock stays within MaxTicks.
NextZoom ==
    /\ ~IsZero(FCvt(F32, zoom))
    /\ \E keys \in ZoomInHeld, now \in ticks..MaxTicks : Control(keys, now)

SpecZoom == Init /\ [][NextZoom]_vars

\* ------------------------------------------------------------------------
\* Fractal.render, the Taichi kernel: one iteration of its outer loop per
\* cell, the iterations running in any order and interleaving
\* ------------------------------------------------------------------------
\* the arguments as the kernel receives them: max_iter: ti.int32, the
\* others ti.float32
KernelArgs(s) ==
    [max_iter |-> s.max_iter,
     zoom     |-> FCvt(F32, s.zoom),
     dx       |-> FCvt(F32, s.increment[1]),
     dy       |-> FCvt(F32, s.increment[2])]

\* c = ti.Vector([(x - offset[0]) * zoom - dx, (y - offset[1]) * zoom - dy])
PixelPoint(p, a) ==
    <<FSub(F32, FMul(F32, FSub(F32, FromInt(F32, p[1]), FCvt(F32, offset[1])),
                     a.zoom), a.dx),
      FSub(F32, FMul(F32, FSub(F32, FromInt(F32, p[2]), FCvt(F32, offset[2])),
                     a.zoom), a.dy)>>

\* the locals of cell p when its escape-time loop begins
PixelStart(p, a) ==
    [st |-> "loop", c |-> PixelPoint(p, a), z |-> <<Zero32, Zero32>>,
     num_iter |-> 0, i |-> 0, col |-> 0]

\* z = ti.Vector([(z.x ** 2 - z.y ** 2 + c.x), (2 * z.x * z.y + c.y)])
NextZ(z, c) ==
    <<FAdd(F32, FSub(F32, FMul(F32, z[1], z[1]), FMul(F32, z[2], z[2])), c[1]),
      FAdd(F32, FMul(F32, FMul(F32, FromInt(F32, 2), z[1]), z[2]), c[2])>>

\* z.dot(z)
Dot(z) == FAdd(F32, FMul(F32, z[1], z[1]), FMul(F32, z[2], z[2]))

\* Escaped with the comparison turned round
Escaped_below(z) == FGt(FromInt(F32, 4), Dot(z))

\* z.dot(z) > 4
Escaped(z) == FGt(Dot(z), FromInt(F32, 4))

\* LoopOver with the range one too long
LoopOver_one_more(k, a) ==
    k.st = "broke" \/ (k.st = "loop" /\ k.i > a.max_iter)

\* the loop of cell k is over: range(max_iter) is exhausted, or it broke
LoopOver(k, a) == k.st = "broke" \/ (k.st = "loop" /\ k.i >= a.max_iter)

\* LoopBody counting the pass before the escape test
LoopBody_count_first(k) ==
    LET z1 == NextZ(k.z, k.c)
    IN  IF Escaped(z1)
        THEN [k EXCEPT !.z = z1, !.num_iter = @ + 1, !.st = "broke"]
        ELSE [k EXCEPT !.z = z1, !.num_iter = @ + 1, !.i = @ + 1]

\* one pass through the body of the loop
LoopBody(k) ==
    LET z1 == NextZ(k.z, k.c)
    IN  IF Escaped(z1) THEN [k EXCEPT !.z = z1, !.st = "broke"]
        ELSE [k EXCEPT !.z = z1, !.num_iter = @ + 1, !.i = @ + 1]

\* ColorIndex with the texture's size for its last index
ColorIndex_size(n, m) ==
    FTrunc(FDiv(F32, FromInt(F32, (texture_size + 1) * n), FromInt(F32, m)))

\* col = int(texture_size * num_iter / max_iter): the product of two
\* int32, a float32 division, a truncation
ColorIndex(n, m) ==
    FTrunc(FDiv(F32, FromInt(F32, texture_size * n), FromInt(F32, m)))

\* self.texture_field[col, col]; outside the field the read is not defined
TexAt(col) ==
    IF col \in 0..(texture_width - 1) /\ col \in 0..(texture_height - 1)
    THEN texture_field[col][col]
    ELSE <<-1, -1, -1>>

\* update() up to the launch of the kernel: control(), then
\* render(self.max_iter, self.zoom, self.increment[0], self.increment[1])
\* is called with the fields control() left, and every cell begins its
\* iteration
Update(keys, now) ==
    /\ pc = "update"
    /\ Len(frames) < MaxPasses
    /\ control(keys, now)
    /\ args' = KernelArgs(View')
    /\ kernel' = [p \in Pixels |-> PixelStart(p, KernelArgs(View'))]
    /\ pc' = "render"
    /\ UNCHANGED <<screen_field, screen_array, frames>>

\* cell p runs the body of its loop once
Iterate(p) ==
    /\ pc = "render"
    /\ kernel[p].st = "loop"
    /\ ~LoopOver(kernel[p], args)
    /\ kernel' = [kernel EXCEPT ![p] = LoopBody(kernel[p])]
    /\ UNCHANGED <<max_iter, zoom, vel, increment, prev_time, screen_field,
                   screen_array, ticks, pressed_key, time_now, args, pc, was,
                   frame, frames>>

\* Shade leaving the cell of a point that never escaped as it is
Shade_skip_inside(p) ==
    /\ pc = "render"
    /\ LoopOver(kernel[p], args)
    /\ LET col == ColorIndex(kernel[p].num_iter, args.max_iter)
       IN  /\ kernel' = [kernel EXCEPT ![p].st = "done", ![p].col = col]
           /\ screen_field' =
                  IF kernel[p].st = "broke"
                  THEN [screen_field EXCEPT ![p] = TexAt(col)]
                  ELSE screen_field
    /\ UNCHANGED <<max_iter, zoom, vel, increment, prev_time, screen_array,
                   ticks, pressed_key, time_now, args, pc, was, frame, frames>>

\* cell p, its loop over, looks its colour up and writes its cell
Shade(p) ==
    /\ pc = "render"
    /\ LoopOver(kernel[p], args)
    /\ LET col == ColorIndex(kernel[p].num_iter, args.max_iter)
       IN  /\ kernel' = [kernel EXCEPT ![p].st = "done", ![p].col = col]
           /\ screen_field' = [screen_field EXCEPT ![p] = TexAt(col)]
    /\ UNCHANGED <<max_iter, zoom, vel, increment, prev_time, screen_array,
                   ticks, pressed_key, time_now, args, pc, was, frame, frames>>

\* the kernel returns; update() copies the field (to_numpy) and draw()
\* blits the copy
Draw ==
    /\ pc = "render"
    /\ \A p \in Pixels : kernel[p].st = "done"
    /\ screen_array' = screen_field
    /\ frames' = Append(frames, [args |-> args, image |-> screen_field])
    /\ pc' = "update"
    /\ UNCHANGED <<max_iter, zoom, vel, increment, prev_time, screen_field,
                   ticks, pressed_key, time_now, args, kernel, was, frame>>

\* The first MaxPasses frames of the program: Fractal.run() once per turn
\* of App.run's loop, the keys of RunHeld held, a frame taking RunMs.
NextRender ==
    \/ \E keys \in RunHeld, ms \in RunMs : Update(keys, ticks + ms)
    \/ \E p \in Pixels : Iterate(p)
    \/ \E p \in Pixels : Shade(p)
    \/ Draw

SpecRender == Init /\ [][NextRender]_vars

\* ------------------------------------------------------------------------
\* The claims
\* ------------------------------------------------------------------------
Held1(k) == k \in pressed_key

\* a is a finite number above zero
Positive(a) == a.k = "fin" /\ ~a.neg /\ a.m # << >>

\* the exact value of a.x * a.x + a.y * a.y, in a format wide enough for it
Wide == [p |-> 120, emin |-> -4000, emax |-> 4000]

ExactNorm(c) == FAdd(Wide, FMul(Wide, c[1], c[1]), FMul(Wide, c[2], c[2]))

\* C1: max_iter is always within [2, max_iter_limit]; a tick changes it by
\* one at most; increase alone adds one and stops at exactly max_iter_limit,
\* decrease alone takes one and stops at exactly 2.
C1_IterClamped ==
    /\ 2 <= max_iter
    /\ max_iter <= max_iter_limit
    /\ frame >= 1 =>
          /\ max_iter - was.max_iter \in {-1, 0, 1}
          /\ (Held1("K_RIGHT") /\ ~Held1("K_LEFT")) =>
                 max_iter = IF was.max_iter = max_iter_limit
                            THEN max_iter_limit ELSE was.max_iter + 1
          /\ (Held1("K_LEFT") /\ ~Held1("K_RIGHT")) =>
                 max_iter = IF was.max_iter = 2 THEN 2 ELSE was.max_iter - 1

\* C1's case: increase held at the limit, reached from 30
C1_AtLimit ==
    /\ frame >= 1
    /\ was.max_iter = max_iter_limit
    /\ pressed_key = {"K_RIGHT"}
    /\ max_iter = max_iter_limit

\* C2: the iteration count of a cell is within [0, max_iter] all through
\* its loop and when the loop ends.
C2_CountInRange ==
    \A p \in Pixels :
        kernel[p].st # "idle" =>
            /\ args.max_iter >= 2
            /\ 0 <= kernel[p].num_iter
            /\ kernel[p].num_iter <= args.max_iter

\* C2's case: a loop that ended by escaping after some passes
C2_EscapedLate ==
    \E p \in Pixels :
        /\ kernel[p].st = "broke"
        /\ kernel[p].num_iter > 0
        /\ kernel[p].num_iter < args.max_iter

\* C3: the colour index of a finished cell is floor(texture_size * num_iter
\* / max_iter), lies within [0, texture_size], inside the texture, and is
\* texture_size when num_iter = max_iter.
C3_ColorInTexture ==
    \A p \in Pixels :
        kernel[p].st = "done" =>
            /\ args.max_iter \in 2..max_iter_limit
            /\ kernel[p].col = (texture_size * kernel[p].num_iter) \div args.max_iter
            /\ 0 <= kernel[p].col
            /\ kernel[p].col <= texture_size
            /\ kernel[p].col < texture_width
            /\ kernel[p].col < texture_height
            /\ kernel[p].num_iter = args.max_iter => kernel[p].col = texture_size

\* C3's case: max_iter = 30 and num_iter = 30
C3_FullCount ==
    \E p \in Pixels :
        /\ kernel[p].st = "done"
        /\ args.max_iter = 30
        /\ kernel[p].num_iter = 30
        /\ kernel[p].col = texture_size

\* C4: from the second frame on, the value delta_time() returns is
\* app_speed times the time since the previous frame.
C4_DeltaIsFrameTime ==
    frame >= 2 => dt = FMul(F64, FromInt(F64, ticks - was.ticks), app_speed)

\* C5: zoom-in alone multiplies zoom and vel by scale, zoom-out alone by
\* 2 - scale, both in one tick by scale and then by 2 - scale; zoom-in then
\* zoom-out, zoom-out then zoom-in and both in one tick leave neither at its
\* value before, the product scale * (2 - scale) not being 1.
C5_ZoomCoupled ==
    LET s  == scale
        t  == FSub(F64, FromInt(F64, 2), scale)
        up == Held1("K_UP")
        dn == Held1("K_DOWN")
    IN  frame >= 1 =>
          /\ FMul(F64, s, t) # FromInt(F64, 1)
          /\ (up /\ ~dn) =>
                 /\ zoom = FMul(F64, was.zoom, s)
                 /\ vel = FMul(F64, was.vel, s)
          /\ (dn /\ ~up) =>
                 /\ zoom = FMul(F64, was.zoom, t)
                 /\ vel = FMul(F64, was.vel, t)
          /\ (up /\ dn) =>
                 /\ zoom = FMul(F64, FMul(F64, was.zoom, s), t)
                 /\ vel = FMul(F64, FMul(F64, was.vel, s), t)
                 /\ zoom # was.zoom
                 /\ vel # was.vel
          /\ (dn /\ ~up /\ was.zoom = FMul(F64, zoom_init, s)
                 /\ was.vel = FMul(F64, vel_init, s)) =>
                 /\ zoom = FMul(F64, FMul(F64, zoom_init, s), t)
                 /\ vel = FMul(F64, FMul(F64, vel_init, s), t)
                 /\ zoom # zoom_init
                 /\ vel # vel_init
          /\ (up /\ ~dn /\ was.zoom = FMul(F64, zoom_init, t)
                 /\ was.vel = FMul(F64, vel_init, t)) =>
                 /\ zoom = FMul(F64, FMul(F64, zoom_init, t), s)
                 /\ vel = FMul(F64, FMul(F64, vel_init, t), s)
                 /\ zoom # zoom_init
                 /\ vel # vel_init

\* C5's case: zoom-in in the first tick, zoom-out in the second
C5_InThenOut ==
    /\ frame = 2
    /\ Held1("K_DOWN")
    /\ ~Held1("K_UP")
    /\ was.zoom = FMul(F64, zoom_init, scale)
    /\ zoom # zoom_init

\* C6: in every state vel / zoom is its initial value, zoom and vel are
\* above zero, and the zoom render() is called with is above zero.
C6_RatioExact ==
    /\ FDiv(F64, vel, zoom) = FDiv(F64, vel_init, zoom_init)
    /\ Positive(zoom)
    /\ Positive(vel)
    /\ Positive(KernelArgs(View).zoom)

\* C6's case: zoom-in held until the zoom render() is called with is zero
C6_RenderZoomZero ==
    /\ pressed_key = {"K_UP"}
    /\ was.zoom # zoom
    /\ Positive(zoom)
    /\ IsZero(KernelArgs(View).zoom)

\* C7: the cell of the point (0, 0) never meets the escape test, and its
\* loop ends with num_iter = max_iter.
C7_OriginStays ==
    \A p \in Pixels :
        (kernel[p].st # "idle" /\ IsZero(kernel[p].c[1]) /\ IsZero(kernel[p].c[2])) =>
            /\ kernel[p].st # "broke"
            /\ ~Escaped(kernel[p].z)
            /\ kernel[p].num_iter = kernel[p].i
            /\ kernel[p].st = "done" => kernel[p].num_iter = args.max_iter

\* C7's case: the cell of (0, 0) finished
C7_OriginDone ==
    \E p \in Pixels :
        /\ kernel[p].st = "done"
        /\ IsZero(kernel[p].c[1])
        /\ IsZero(kernel[p].c[2])
        /\ kernel[p].num_iter = args.max_iter

\* C8 as stated: a finished cell whose point c has |c| > 2 has num_iter = 0.
C8_OutsideEscapesAtOnce ==
    \A p \in Pixels :
        (kernel[p].st = "done" /\ FGt(ExactNorm(kernel[p].c), FromInt(Wide, 4))) =>
            kernel[p].num_iter = 0

\* C8, amended: a cell whose point c has c.x * c.x + c.y * c.y, computed in
\* float32, above 4 leaves its loop in the first pass: z is c, the counter
\* is not incremented, num_iter = 0.
C8_NormAbove4EscapesAtOnce ==
    \A p \in Pixels :
        (kernel[p].st # "idle" /\ Escaped(kernel[p].c)) =>
            /\ args.max_iter >= 2
            /\ kernel[p].num_iter = 0
            /\ kernel[p].i = 0
            /\ kernel[p].st = "loop" => kernel[p].z = <<Zero32, Zero32>>
            /\ kernel[p].st # "loop" => kernel[p].z = kernel[p].c

\* C8's case: a cell whose point has a float32 norm above 4 finished
C8_FarCellDone ==
    \E p \in Pixels :
        /\ kernel[p].st = "done"
        /\ Escaped(kernel[p].c)
        /\ kernel[p].z = kernel[p].c
        /\ kernel[p].num_iter = 0

\* the value of an axis after a tick: plus adds vel * dt, minus subtracts
\* it, vel being the one before the tick; both holds what both is given
PanAxis(i, plus, minus, both) ==
    LET step == FMul(F64, was.vel, dt)
    IN  IF Held1(plus) /\ Held1(minus) THEN both
        ELSE IF Held1(plus) THEN FAdd(F64, was.increment[i], step)
        ELSE IF Held1(minus) THEN FSub(F64, was.increment[i], step)
        ELSE was.increment[i]

\* C9 as stated: an axis with both of its keys held is left unchanged.
C9_PanBothUnchanged ==
    frame >= 1 =>
        /\ increment[1] = PanAxis(1, "K_a", "K_d", was.increment[1])
        /\ increment[2] = PanAxis(2, "K_w", "K_s", was.increment[2])

\* C9, amended: K_a adds vel * dt to increment[0] and K_d subtracts it, K_w
\* adds it to increment[1] and K_s subtracts it, vel being the velocity
\* before the tick's zoom; an axis with neither key held is unchanged; with
\* both held, vel * dt is added and then subtracted, each a rounded
\* addition.
C9_PanStep ==
    LET step == FMul(F64, was.vel, dt)
    IN  frame >= 1 =>
          /\ increment[1] =
                 PanAxis(1, "K_a", "K_d",
                         FSub(F64, FAdd(F64, was.increment[1], step), step))
          /\ increment[2] =
                 PanAxis(2, "K_w", "K_s",
                         FSub(F64, FAdd(F64, was.increment[2], step), step))

\* C9's case: both keys of an axis held, and the axis not where it was
C9_BothMoved ==
    /\ frame >= 1
    /\ Held1("K_a")
    /\ Held1("K_d")
    /\ increment[1] # was.increment[1]

\* what holds of the field and the frames in every state, for C10
PassWritesAll ==
    /\ (pc = "update" /\ frames # << >>) =>
          /\ \A p \in Pixels :
                 /\ kernel[p].st = "done"
                 /\ kernel[p].c = PixelPoint(p, args)
                 /\ screen_field[p] = TexAt(kernel[p].col)
          /\ screen_array = screen_field
          /\ frames[Len(frames)] = [args |-> args, image |-> screen_field]
    /\ \A i, j \in 1..Len(frames) :
           frames[i].args = frames[j].args => frames[i].image = frames[j].image
    /\ pc = "render" => args = KernelArgs(View)

\* C10: when a pass is over every cell holds the texel of its own colour
\* index, whatever it held before and whatever the order of the cells, and
\* the copy drawn is the field; two passes with the same arguments draw the
\* same frame; no step of a pass changes max_iter, zoom, vel or increment.
C10_RenderPure ==
    /\ []PassWritesAll
    /\ [][pc = "render" => UNCHANGED <<max_iter, zoom, vel, increment>>]_vars

\* C10's case: a second pass over, with the arguments of the first, on a
\* field the first pass had filled
C10_SecondPassDone ==
    /\ pc = "update"
    /\ Len(frames) = 2
    /\ frames[1].args = frames[2].args
    /\ \E p \in Pixels : frames[1].image[p] # Black

====
